---- MODULE Spec2Model ----
(***************************************************************************)
(* Refresh pipeline of the cloud-pricing worker: the POST                  *)
(* /:provider/refresh handler, performScraping, the KVStore it uses and    *)
(* the ValidationPipeline that decides whether a candidate is committed.   *)
(*                                                                         *)
(* Every `await` of the handler is a suspension point, so each store       *)
(* operation is one atomic step and the steps of concurrent requests       *)
(* interleave freely.  Time is the value Date.now() returns, in            *)
(* milliseconds; it advances only by Tick.  Confidences are in             *)
(* thousandths (1000 = 1.0).                                               *)
(***************************************************************************)
EXTENDS Integers, Sequences, FiniteSets, TLC

\* ------------------------------------------------------------------ bounds
\* request slots that can be in flight together
NumReqs == 2
\* refresh triggers over a whole behaviour
MaxTriggers == 2
\* clock advances over a whole behaviour
MaxTicks == 1

Reqs == 1..NumReqs

\* ------------------------------------------------------- program constants
\* expirationTtl of the scraping lock, in seconds (5 * 60)
LockTtlSec == 300
\* freshness window, in milliseconds
oneHour == 60 * 60 * 1000
\* one calendar day in milliseconds: toISOString().split('T')[0] changes
DayMs == 24 * 60 * 60 * 1000
\* validate: the acceptance threshold 0.5, in thousandths
Threshold == 500
\* validateCore: minimal serialized size
MinDataLen == 100
\* tryFetchPages result is used only when every text is longer than this
MinTextLen == 500

\* the clock steps the model takes: the lock's lifetime and the freshness window
TickSteps == {LockTtlSec * 1000, oneHour}
\* the behaviour starts at 23:00 of day 0, so that one hour later is day 1
StartNow == 23 * oneHour

Date(t) == t \div DayMs
\* the calendar dates a behaviour can see
Dates == 0..(Date(StartNow + MaxTicks * oneHour) + 1)

\* ------------------------------------------------------------- providers
\* two of the configured providers: one 'ssr' with several URLs, one 'auto'
PROVIDERS == {"vercel", "fly"}
renderingMode(p) == IF p = "vercel" THEN "ssr" ELSE "auto"
urlCount(p) == IF p = "vercel" THEN 4 ELSE 1
\* ids a request may carry: the configured ones and one that is not configured
RequestIds == PROVIDERS \cup {"unknown"}

\* ------------------------------------------------------------- documents
\* An extracted document, by what the pipeline reads of it:
\*   truthy  - `data && typeof data === 'object'`
\*   len     - JSON.stringify(data).length
\*   words   - vocabulary occurring in the lower-cased serialization
\*   nums    - numeric literals occurring as values, in order of appearance
\*   tiers   - what countPlansOrTiers counts
\*   dup     - a "price"/"cost" line repeats a value more than 5 lines apart
EmptyDoc ==
  [truthy |-> TRUE, len |-> 2, words |-> {}, nums |-> <<>>, tiers |-> 0,
   dup |-> FALSE]
NullDoc ==
  [truthy |-> FALSE, len |-> 4, words |-> {}, nums |-> <<>>, tiers |-> 0,
   dup |-> FALSE]
GoodDoc ==
  [truthy |-> TRUE, len |-> 240,
   words |-> {"price", "tier", "tiers", "free", "pro", "limits"},
   nums |-> <<0, 20>>, tiers |-> 2, dup |-> FALSE]
\* passes the core check on "free"/"pro" but scores no extraction confidence
SparseDoc ==
  [truthy |-> TRUE, len |-> 120, words |-> {"free", "pro"}, nums |-> <<>>,
   tiers |-> 0, dup |-> FALSE]
\* long enough, without any pricing or limits vocabulary
PlainDoc ==
  [truthy |-> TRUE, len |-> 150, words |-> {"name"}, nums |-> <<7>>,
   tiers |-> 0, dup |-> FALSE]
Docs == {EmptyDoc, GoodDoc, SparseDoc}

\* ------------------------------------------------------------ absent values
NoLock == [job |-> <<>>, exp |-> 0, by |-> 0]
NoData == [provider |-> "", scrapedAt |-> 0, data |-> NullDoc,
           confidence |-> 0, by |-> 0, ok |-> FALSE]
NoResult == [valid |-> FALSE, confidence |-> 0, data |-> NullDoc,
             errors |-> <<>>, warnings |-> <<>>]
NoExtraction == [data |-> NullDoc, confidence |-> 0]
NoResp == [code |-> 0, status |-> "", jobId |-> <<>>, message |-> "",
           body |-> NoData]

\* ------------------------------------------------------- LLMExtractor
hasNestedProperty(d, keywords) == d.words \cap keywords # {}

\* score / checks over the five completeness checks, in thousandths
calculateConfidence(d, npages) ==
  LET c1 == hasNestedProperty(d, {"price", "cost", "pricing", "plans", "tiers"})
      c2 == hasNestedProperty(d, {"limits", "quotas", "included", "allowance"})
      c3 == hasNestedProperty(d, {"features", "capabilities", "included"})
      c4 == d.len >= npages * 500
      c5 == d.tiers >= 2
      B(c) == IF c THEN 1 ELSE 0
      score == B(c1) + B(c2) + B(c3) + B(c4) + B(c5)
  IN  (score * 1000) \div 5

\* ------------------------------------------------- ValidationPipeline
Abs(x) == IF x < 0 THEN -x ELSE x

hasAnyProperty(d, properties) == d.words \cap properties # {}

\* the hard errors validateCore pushes; it returns true iff it pushed none
coreErrors(d) ==
  IF ~d.truthy THEN <<"Data is empty or not an object">>
  ELSE IF d.len < MinDataLen
    THEN <<"Data appears to be too small to contain pricing information">>
  ELSE IF ~(\/ hasAnyProperty(d, {"price", "cost", "plan", "tier", "free",
                                  "pro", "enterprise"})
            \/ hasAnyProperty(d, {"limits", "quotas", "features", "included"}))
    THEN <<"Data does not contain expected pricing-related fields">>
  ELSE <<>>

validateCore(d) == coreErrors(d) = <<>>

validateVercelWarnings(d) ==
  (IF \/ hasAnyProperty(d, {"hobby", "pro", "enterprise"})
      \/ hasAnyProperty(d, {"tiers", "plans"})
     THEN <<>> ELSE <<"Vercel data missing expected plan structure">>)
  \o (IF hasAnyProperty(d, {"bandwidth", "buildminutes", "functions"})
       THEN <<>> ELSE <<"Vercel data missing expected limit types">>)

validateNetlifyWarnings(d) ==
  (IF \/ hasAnyProperty(d, {"free", "pro", "business", "enterprise"})
      \/ hasAnyProperty(d, {"plans", "tiers"})
     THEN <<>> ELSE <<"Netlify data missing expected plan structure">>)
  \o (IF hasAnyProperty(d, {"bandwidth", "buildminutes", "functions",
                            "edgefunctions"})
       THEN <<>> ELSE <<"Netlify data missing expected feature types">>)

providerWarnings(p, d) ==
  IF p = "vercel" THEN validateVercelWarnings(d)
  ELSE IF p = "netlify" THEN validateNetlifyWarnings(d)
  ELSE <<>>

\* mutant: a missed expectation fails the layer
validateProviderStrict(p, d) == providerWarnings(p, d) = <<>>

\* every branch returns true: warnings don't fail validation
validateProvider(p, d) == TRUE

RECURSIVE Dedupe(_)
Dedupe(s) ==
  IF s = <<>> THEN <<>>
  ELSE LET front == Dedupe(SubSeq(s, 1, Len(s) - 1))
           last == s[Len(s)]
       IN  IF \E i \in 1..Len(front) : front[i] = last
             THEN front ELSE Append(front, last)

\* the patterns capture digits only, so a literal with a sign never matches;
\* matches outside [0, 100000) are dropped and duplicates removed
extractPrices(d) == Dedupe(SelectSeq(d.nums, LAMBDA n : n >= 0 /\ n < 100000))

NoPrice == -1

\* mutant: the closest previous price matches at any distance
findClosestPriceAnyDistance(target, prices) ==
  IF prices = <<>> THEN NoPrice
  ELSE LET minDiff == CHOOSE m \in {Abs(target - prices[i]) : i \in 1..Len(prices)} :
                        \A i \in 1..Len(prices) : m <= Abs(target - prices[i])
           first == CHOOSE i \in 1..Len(prices) :
                      /\ Abs(target - prices[i]) = minDiff
                      /\ \A j \in 1..(i - 1) : Abs(target - prices[j]) # minDiff
       IN  prices[first]

\* the first price at minimal distance, if that distance is under 20% of target
findClosestPrice(target, prices) ==
  IF prices = <<>> THEN NoPrice
  ELSE LET minDiff == CHOOSE m \in {Abs(target - prices[i]) : i \in 1..Len(prices)} :
                        \A i \in 1..Len(prices) : m <= Abs(target - prices[i])
           first == CHOOSE i \in 1..Len(prices) :
                      /\ Abs(target - prices[i]) = minDiff
                      /\ \A j \in 1..(i - 1) : Abs(target - prices[j]) # minDiff
       IN  IF target > 0 /\ 5 * minDiff < target THEN prices[first] ELSE NoPrice

RECURSIVE priceWarnings(_, _)
priceWarnings(newPrices, oldPrices) ==
  IF newPrices = <<>> THEN <<>>
  ELSE LET price == Head(newPrices)
           closestOld == findClosestPrice(price, oldPrices)
           here == IF closestOld # NoPrice /\ closestOld # 0
                      /\ 2 * Abs(price - closestOld) > closestOld
                     THEN <<"Detected price change">> ELSE <<>>
       IN  here \o priceWarnings(Tail(newPrices), oldPrices)

statisticalWarnings(newData, historical, hasHistorical) ==
  IF ~hasHistorical THEN <<>>
  ELSE (IF 2 * Abs(historical.data.len - newData.len) > historical.data.len
          THEN <<"Data size changed">> ELSE <<>>)
       \o priceWarnings(extractPrices(newData), extractPrices(historical.data))

\* mutant: a statistical warning fails the layer
validateStatisticallyStrict(newData, historical, hasHistorical) ==
  statisticalWarnings(newData, historical, hasHistorical) = <<>>

\* every path returns true
validateStatistically(newData, historical, hasHistorical) == TRUE

\* false only when an extracted price is negative
validateSemantically(d) ==
  LET prices == extractPrices(d)
  IN  ~ \E i \in 1..Len(prices) : prices[i] < 0

semanticWarnings(d) ==
  LET prices == extractPrices(d)
  IN  IF \E i \in 1..Len(prices) : prices[i] < 0
        THEN <<"Invalid negative price found">>
        ELSE (IF \E i \in 1..Len(prices) : prices[i] > 100000
                THEN <<"Unusually high price found">> ELSE <<>>)
             \o (IF d.dup THEN <<"Duplicate price value found">> ELSE <<>>)

\* mutant: a passed provider layer counts 1 like the core layer
validationScoreFlat(coreValid, providerValid, statsValid, semanticValid) ==
  ( (IF coreValid THEN 1000 ELSE 0) + (IF providerValid THEN 1000 ELSE 0)
  + (IF statsValid THEN 700 ELSE 500) + (IF semanticValid THEN 900 ELSE 500) )
  \div 4

\* mutant: the layer scores are summed and not averaged
validationScoreSum(coreValid, providerValid, statsValid, semanticValid) ==
    (IF coreValid THEN 1000 ELSE 0) + (IF providerValid THEN 800 ELSE 0)
  + (IF statsValid THEN 700 ELSE 500) + (IF semanticValid THEN 900 ELSE 500)

\* average of the four layer scores, in thousandths
validationScore(coreValid, providerValid, statsValid, semanticValid) ==
  ( (IF coreValid THEN 1000 ELSE 0) + (IF providerValid THEN 800 ELSE 0)
  + (IF statsValid THEN 700 ELSE 500) + (IF semanticValid THEN 900 ELSE 500) )
  \div 4

\* mutant: the 'Confidence too low' error is not pushed
finalErrorsNoPush(valid, errors0) == errors0

\* if (!valid && errors.length === 0) errors.push('Confidence too low: ...')
finalErrors(valid, errors0) ==
  IF ~valid /\ errors0 = <<>> THEN <<"Confidence too low">> ELSE errors0

\* mutant: the decision looks at the final confidence alone
DecideConfidenceOnly(coreValid, confidence, score) ==
  confidence + score > 2 * Threshold

\* mutant: the threshold itself is accepted
DecideAtLeast(coreValid, confidence, score) ==
  coreValid /\ confidence + score >= 2 * Threshold

\* valid = coreValid && finalConfidence > 0.5, finalConfidence being
\* (confidence + validationScore) / 2
Decide(coreValid, confidence, score) ==
  coreValid /\ confidence + score > 2 * Threshold

validate(provider, data, confidence, historical, hasHistorical) ==
  LET errors0 == coreErrors(data)
      coreValid == validateCore(data)
      providerValid == validateProvider(provider, data)
      statsValid == validateStatistically(data, historical, hasHistorical)
      semanticValid == validateSemantically(data)
      warnings == providerWarnings(provider, data)
                  \o statisticalWarnings(data, historical, hasHistorical)
                  \o semanticWarnings(data)
      score == validationScore(coreValid, providerValid, statsValid,
                               semanticValid)
      finalConfidence == (confidence + score) \div 2
      valid == Decide(coreValid, confidence, score)
      errors == finalErrors(valid, errors0)
  IN  [valid |-> valid, confidence |-> finalConfidence,
       data |-> IF valid THEN data ELSE NullDoc,
       errors |-> errors, warnings |-> warnings]

VARIABLES
  now,              \* Date.now()
  ticks,            \* clock advances so far
  triggers,         \* triggers so far; also the number of the latest attempt
  lock,             \* KV scraping:{provider}:lock
  current,          \* KV pricing:{provider}:current
  archive,          \* KV pricing:{provider}:{date}
  failure,          \* KV validation:{provider}:last_failure
  pc,               \* where each request is
  prov, force, wait, jobId,         \* the request's parameters and job id
  att,              \* the number of the attempt a slot is running
  pages,            \* scrapingResult.pages.length
  extractionResult, validationResult, pricingData,
  err,              \* the exception propagating out of performScraping
  resp,             \* the response the caller received
  acquired,         \* history: setScrapingLock returned true
  released,         \* history: the attempt called releaseScrapingLock
  calls,            \* history: pipeline stages the attempt invoked, in order
  wroteCurrent,     \* history: the attempt wrote the current key
  sawFresh,         \* history: the freshness read found a snapshot < 1h old
  sawLock,          \* history: the lock read found an unexpired lease
  freshAtLock,      \* history: current was < 1h old when the lock was read
  stolen,           \* history: a release removed another attempt's lease
  recorded,         \* history: the attempt stored its rejection as FailureRecord
  ids,              \* the provider ids requests carry in this behaviour
  args,             \* the arguments of a component called on its own
  ret               \* what that call returned

store == <<lock, current, archive, failure>>
params == <<prov, force, wait, jobId, att>>
locals == <<pages, extractionResult, validationResult, pricingData, err>>
hist == <<acquired, released, calls, wroteCurrent, sawFresh, sawLock,
          freshAtLock, stolen, recorded>>
call == <<args, ret>>
vars == <<now, ticks, triggers, store, pc, params, locals, resp, hist, ids,
          call>>

\* --------------------------------------------------------------- KVStore
\* mutant: the stored lease is returned whatever its expiry
kvGetLockNoExpiry(p) == lock[p]

\* PRICING_DATA.get of the lock key: an expired key reads as absent
kvGetLock(p) == IF lock[p] # NoLock /\ now < lock[p].exp THEN lock[p] ELSE NoLock

\* mutant: only a lease past its expiry counts as existing
lockExistingExpiredOnly(p) == lock[p] # NoLock /\ now >= lock[p].exp

\* mutant: the existing lock is never seen
lockExistingNever(p) == FALSE

\* setScrapingLock, first half: `existing` is truthy
lockExisting(p) == kvGetLock(p) # NoLock

\* setScrapingLock, second half: put(key, jobId, {expirationTtl: 5 * 60})
lockPut(p, job, a) ==
  [lock EXCEPT ![p] = [job |-> job, exp |-> now + LockTtlSec * 1000, by |-> a]]

\* mutant: the deleted key does not name the provider
releaseScrapingLockAll(p, a) == [q \in PROVIDERS |-> NoLock]

\* releaseScrapingLock: delete(key), whatever the key holds
releaseScrapingLock(p, a) == [lock EXCEPT ![p] = NoLock]

getCurrentPricing(p) == current[p]

\* mutant: the put of the current key is lost
putCurrentDropped(p, data) == current

\* setCurrentPricing, first put
putCurrent(p, data) == [current EXCEPT ![p] = data]

\* mutant: the archive put is not keyed by the date
putArchiveAllDates(p, data) == [archive EXCEPT ![p] = [d \in Dates |-> data]]

\* setCurrentPricing, second put: the dated archive key
putArchive(p, data) == [archive EXCEPT ![p][Date(now)] = data]

\* mutant: the failure is put under the provider's current key
setLastFailureCurrentKey(p, result) ==
  [current |-> [current EXCEPT ![p] = [NoData EXCEPT !.provider = p]],
   archive |-> archive, failure |-> failure]

\* setLastFailure: the data keys once it has run; it puts the failure key alone
setLastFailure(p, result) ==
  [current |-> current, archive |-> archive,
   failure |-> [failure EXCEPT ![p] = result]]

\* ----------------------------------------------------- UniversalScraper
FetchOutcomes == {"long", "short", "http_error", "throw"}
BrowserOutcomes == {"long", "short", "error"}

\* tryFetchPages: a non-ok response is skipped, an exception leaves an error page
\* a page is [url, text, error]: the index of its URL in config.urls, its text
\* ("long": more than 500 characters, "short": fewer, "": none) and whether
\* its error field is set
fetchedPages(fs) ==
  LET tried == [i \in 1..Len(fs) |-> [url |-> i, o |-> fs[i]]]
      kept == SelectSeq(tried, LAMBDA x : x.o # "http_error")
  IN  [i \in 1..Len(kept) |->
         [url |-> kept[i].url,
          text |-> IF kept[i].o = "throw" THEN "" ELSE kept[i].o,
          error |-> kept[i].o = "throw"]]

\* scrapeAllPages: a page that fails to load is returned with its error
scrapeAllPages(bs) ==
  [i \in 1..Len(bs) |->
     [url |-> i, text |-> IF bs[i] = "error" THEN "" ELSE bs[i],
      error |-> bs[i] = "error"]]

\* mutant: one long page is enough
fetchSufficientSome(ps) ==
  Len(ps) > 0 /\ \E i \in 1..Len(ps) : ps[i].text = "long"

\* fetchedPages.length > 0 && every text longer than 500 characters
fetchSufficient(ps) ==
  Len(ps) > 0 /\ \A i \in 1..Len(ps) : ps[i].text = "long"

\* scrapeProvider, given what each fetch did, whether the browser launched and
\* what each rendered page did
scrapeProvider(mode, fs, launched, bs) ==
  IF mode \in {"ssr", "auto"} /\ fetchSufficient(fetchedPages(fs))
    THEN [success |-> TRUE, pages |-> fetchedPages(fs)]
  ELSE IF mode = "ssr"
    THEN [success |-> FALSE, pages |-> fetchedPages(fs)]
  ELSE IF launched THEN [success |-> TRUE, pages |-> scrapeAllPages(bs)]
  ELSE [success |-> FALSE, pages |-> <<>>]

\* whether scrapeProvider calls tryFetchPages
triesFetch(mode) == mode \in {"ssr", "auto"}

\* whether scrapeProvider reaches launch(): neither return of the fetch branch
\* was taken
launchesBrowser(mode, fs) ==
  ~(triesFetch(mode) /\ (fetchSufficient(fetchedPages(fs)) \/ mode = "ssr"))

ScrapeResults(p) ==
  { scrapeProvider(renderingMode(p), fs, launched, bs) :
      fs \in [1..urlCount(p) -> FetchOutcomes],
      launched \in IF renderingMode(p) = "ssr" THEN {FALSE} ELSE BOOLEAN,
      bs \in IF renderingMode(p) = "ssr" THEN {<<>>}
             ELSE [1..urlCount(p) -> BrowserOutcomes] }

\* ------------------------------------------------------------ responses
NotFound == [NoResp EXCEPT !.code = 404, !.status = "NOT_FOUND"]
AlreadyRunning ==
  [NoResp EXCEPT !.code = 202, !.status = "already_running",
                 !.message = "Scraping already in progress for this provider"]
\* mutant: the short circuit answers with the background-acceptance body
AcceptedRecentAsBackground(job) ==
  [NoResp EXCEPT !.code = 202, !.status = "accepted", !.jobId = job,
                 !.message = "Scraping job accepted, processing in background"]

AcceptedRecent(job) ==
  [NoResp EXCEPT !.code = 202, !.status = "accepted", !.jobId = job,
                 !.message = "Recent data exists, use force=true to refresh"]
AcceptedBackground(job) ==
  [NoResp EXCEPT !.code = 202, !.status = "accepted", !.jobId = job,
                 !.message = "Scraping job accepted, processing in background"]
Completed(data) == [NoResp EXCEPT !.code = 200, !.status = "ok", !.body = data]
\* error.message of what performScraping threw
errorMessage(e) == IF e = "validation" THEN "Validation failed" ELSE e
ScrapingFailed(job, e) ==
  [NoResp EXCEPT !.code = 500, !.status = "SCRAPING_FAILED", !.jobId = job,
                 !.message = errorMessage(e)]
\* an exception no handler catches: the framework answers 500
InternalError == [NoResp EXCEPT !.code = 500, !.status = "INTERNAL"]

\* ---------------------------------------------------------------- Init
\* no component has been called on its own
NoCall == [op |-> "none"]

\* no refresh request has arrived
NoRequests ==
  /\ ticks = 0
  /\ triggers = 0
  /\ pc = [r \in Reqs |-> "idle"]
  /\ prov = [r \in Reqs |-> "unknown"]
  /\ force = [r \in Reqs |-> FALSE]
  /\ wait = [r \in Reqs |-> FALSE]
  /\ jobId = [r \in Reqs |-> <<>>]
  /\ att = [r \in Reqs |-> 0]
  /\ pages = [r \in Reqs |-> 0]
  /\ extractionResult = [r \in Reqs |-> NoExtraction]
  /\ validationResult = [r \in Reqs |-> NoResult]
  /\ pricingData = [r \in Reqs |-> NoData]
  /\ err = [r \in Reqs |-> "none"]
  /\ resp = [r \in Reqs |-> NoResp]
  /\ acquired = [r \in Reqs |-> FALSE]
  /\ released = [r \in Reqs |-> FALSE]
  /\ calls = [r \in Reqs |-> <<>>]
  /\ wroteCurrent = [r \in Reqs |-> FALSE]
  /\ sawFresh = [r \in Reqs |-> FALSE]
  /\ sawLock = [r \in Reqs |-> FALSE]
  /\ freshAtLock = [r \in Reqs |-> FALSE]
  /\ stolen = FALSE
  /\ recorded = [r \in Reqs |-> FALSE]

\* the worker after deployment: an empty KV namespace, no request in flight
WorkerInit ==
  /\ now = StartNow
  /\ lock = [p \in PROVIDERS |-> NoLock]
  /\ current = [p \in PROVIDERS |-> NoData]
  /\ archive = [p \in PROVIDERS |-> [d \in Dates |-> NoData]]
  /\ failure = [p \in PROVIDERS |-> NoResult]
  /\ NoRequests

Init ==
  /\ WorkerInit
  /\ ids = {"fly", "unknown"}
  /\ args = NoCall
  /\ ret = NoCall

\* ------------------------------------------------- the refresh handler
\* mutant: the lookup is skipped
providerExistsAny(p) == TRUE

\* PROVIDERS.find((p) => p.id === provider)
providerExists(p) == p \in PROVIDERS

\* mutant: the age comparison is inverted
isRecentInverted(existing) ==
  existing # NoData /\ now - existing.scrapedAt >= oneHour

\* age < oneHour, for the snapshot the freshness read returned
isRecent(existing) ==
  existing # NoData /\ now - existing.scrapedAt < oneHour

\* a request arrives: parameters are validated, the provider is looked up and
\* the job id is made from the provider and the clock
Trigger(r) ==
  /\ pc[r] \in {"idle", "done"}
  /\ \A q \in Reqs : q < r => pc[q] \notin {"idle", "done"}
  /\ triggers < MaxTriggers
  /\ \E p \in ids, f \in BOOLEAN, w \in BOOLEAN :
       /\ triggers' = triggers + 1
       /\ prov' = [prov EXCEPT ![r] = p]
       /\ force' = [force EXCEPT ![r] = f]
       /\ wait' = [wait EXCEPT ![r] = w]
       /\ att' = [att EXCEPT ![r] = triggers + 1]
       /\ IF providerExists(p)
            THEN /\ pc' = [pc EXCEPT ![r] = "lock_get"]
                 /\ jobId' = [jobId EXCEPT ![r] = <<"job", p, now>>]
                 /\ resp' = [resp EXCEPT ![r] = NoResp]
            ELSE /\ pc' = [pc EXCEPT ![r] = "done"]
                 /\ jobId' = [jobId EXCEPT ![r] = <<>>]
                 /\ resp' = [resp EXCEPT ![r] = NotFound]
  /\ pages' = [pages EXCEPT ![r] = 0]
  /\ extractionResult' = [extractionResult EXCEPT ![r] = NoExtraction]
  /\ validationResult' = [validationResult EXCEPT ![r] = NoResult]
  /\ pricingData' = [pricingData EXCEPT ![r] = NoData]
  /\ err' = [err EXCEPT ![r] = "none"]
  /\ acquired' = [acquired EXCEPT ![r] = FALSE]
  /\ released' = [released EXCEPT ![r] = FALSE]
  /\ calls' = [calls EXCEPT ![r] = <<>>]
  /\ wroteCurrent' = [wroteCurrent EXCEPT ![r] = FALSE]
  /\ sawFresh' = [sawFresh EXCEPT ![r] = FALSE]
  /\ sawLock' = [sawLock EXCEPT ![r] = FALSE]
  /\ freshAtLock' = [freshAtLock EXCEPT ![r] = FALSE]
  /\ recorded' = [recorded EXCEPT ![r] = FALSE]
  /\ UNCHANGED <<ids, call, now, ticks, store, stolen>>

\* setScrapingLock: the read of the lock key
LockGet(r) ==
  /\ pc[r] = "lock_get"
  /\ IF lockExisting(prov[r])
       THEN /\ pc' = [pc EXCEPT ![r] = "done"]
            /\ resp' = [resp EXCEPT ![r] = AlreadyRunning]
       ELSE /\ pc' = [pc EXCEPT ![r] = "lock_put"]
            /\ UNCHANGED resp
  /\ sawLock' = [sawLock EXCEPT ![r] =
        lock[prov[r]] # NoLock /\ now < lock[prov[r]].exp]
  /\ freshAtLock' = [freshAtLock EXCEPT ![r] =
        /\ current[prov[r]] # NoData
        /\ now - current[prov[r]].scrapedAt < oneHour]
  /\ UNCHANGED <<ids, call, now, ticks, triggers, store, params, locals,
                 acquired,
                 released, calls, wroteCurrent, sawFresh, stolen, recorded>>

\* where the handler goes once it holds the lock and has decided to scrape:
\* performScraping starts at once; without wait the caller is answered now
startScraping(r) ==
  /\ pc' = [pc EXCEPT ![r] = "scrape"]
  /\ resp' = [resp EXCEPT ![r] =
                IF wait[r] THEN NoResp ELSE AcceptedBackground(jobId[r])]

\* setScrapingLock: the write of the lock key; it returns true
LockPut(r) ==
  /\ pc[r] = "lock_put"
  /\ lock' = lockPut(prov[r], jobId[r], att[r])
  /\ acquired' = [acquired EXCEPT ![r] = TRUE]
  /\ IF force[r]
       THEN startScraping(r)
       ELSE /\ pc' = [pc EXCEPT ![r] = "fresh_get"]
            /\ UNCHANGED resp
  /\ UNCHANGED <<ids, call, now, ticks, triggers, current, archive, failure,
                 params,
                 locals, released, calls, wroteCurrent, sawFresh,
                 sawLock, freshAtLock, stolen, recorded>>

\* a store operation of the handler itself fails: nothing catches it there
HandlerStoreError(r) ==
  /\ pc[r] \in {"lock_get", "lock_put", "fresh_get"}
  /\ pc' = [pc EXCEPT ![r] = "done"]
  /\ resp' = [resp EXCEPT ![r] = InternalError]
  /\ UNCHANGED <<ids, call, now, ticks, triggers, store, params, locals, hist>>

\* the freshness check: getCurrentPricing and the age test
FreshGet(r) ==
  /\ pc[r] = "fresh_get"
  /\ sawFresh' = [sawFresh EXCEPT ![r] =
        /\ current[prov[r]] # NoData
        /\ now - current[prov[r]].scrapedAt < oneHour]
  /\ IF isRecent(getCurrentPricing(prov[r]))
       THEN /\ pc' = [pc EXCEPT ![r] = "fresh_release"]
            /\ UNCHANGED resp
       ELSE startScraping(r)
  /\ UNCHANGED <<ids, call, now, ticks, triggers, store, params, locals,
                 acquired,
                 released, calls, wroteCurrent, sawLock, freshAtLock, stolen,
                 recorded>>

\* what a release does to the history: it removed a live lease of another attempt
releaseSteals(p, a) == kvGetLock(p) # NoLock /\ kvGetLock(p).by # a

\* recent data exists: release the lock and answer 'accepted'
FreshRelease(r) ==
  /\ pc[r] = "fresh_release"
  /\ lock' = releaseScrapingLock(prov[r], att[r])
  /\ stolen' = (stolen \/ (releaseSteals(prov[r], att[r]) /\ lock'[prov[r]] = NoLock))
  /\ released' = [released EXCEPT ![r] = TRUE]
  /\ pc' = [pc EXCEPT ![r] = "done"]
  /\ resp' = [resp EXCEPT ![r] = AcceptedRecent(jobId[r])]
  /\ UNCHANGED <<ids, call, now, ticks, triggers, current, archive, failure,
                 params,
                 locals, acquired, calls, wroteCurrent, sawFresh,
                 sawLock, freshAtLock, recorded>>

\* ------------------------------------------------------ performScraping
\* an exception inside the try block: control goes to the finally block
\* (the block's constants are out of scope there)
throw(r, e) ==
  /\ err' = [err EXCEPT ![r] = e]
  /\ pc' = [pc EXCEPT ![r] = "release"]
  /\ pages' = [pages EXCEPT ![r] = 0]
  /\ extractionResult' = [extractionResult EXCEPT ![r] = NoExtraction]
  /\ validationResult' = [validationResult EXCEPT ![r] = NoResult]
  /\ pricingData' = [pricingData EXCEPT ![r] = NoData]

\* 1. scraper.scrapeProvider; a result without success is thrown
Scrape(r) ==
  /\ pc[r] = "scrape"
  /\ calls' = [calls EXCEPT ![r] = Append(@, "scrape")]
  /\ \E res \in ScrapeResults(prov[r]) :
       IF res.success
         THEN /\ pages' = [pages EXCEPT ![r] = Len(res.pages)]
              /\ pc' = [pc EXCEPT ![r] = "save_raw"]
              /\ UNCHANGED <<err, extractionResult, validationResult,
                             pricingData>>
         ELSE throw(r, "scrape")
  /\ UNCHANGED <<ids, call, now, ticks, triggers, store, params, resp, acquired,
                 released, wroteCurrent, sawFresh, sawLock, freshAtLock, stolen,
                 recorded>>

\* mutant: the validity test is dropped, every candidate goes on to the commit
rejectedNever(result) == FALSE

\* if (!validationResult.valid): the branch taken once the report is saved
rejected(result) == ~result.valid

\* mutant: the raw pages saved, validation comes next
nextAfterSaveSkipExtract(r) ==
  CASE pc[r] = "save_raw" -> "validate"
    [] pc[r] = "save_extraction" -> "validate"
    [] pc[r] = "save_report" ->
         IF rejected(validationResult[r]) THEN "set_failure" ELSE "put_current"

\* 2. / 4. / 6. the writes to the R2 archive bucket
nextAfterSave(r) ==
  CASE pc[r] = "save_raw" -> "extract"
    [] pc[r] = "save_extraction" -> "validate"
    [] pc[r] = "save_report" ->
         IF rejected(validationResult[r]) THEN "set_failure" ELSE "put_current"

\* mutant: metadata.confidence is the extraction's own confidence
buildPricingDataRaw(r) ==
  [provider |-> prov[r], scrapedAt |-> now, data |-> extractionResult[r].data,
   confidence |-> extractionResult[r].confidence, by |-> att[r],
   ok |-> validationResult[r].valid]

\* 7. the PricingData object, built when the report has been saved
\* (ok: history, the ValidationOutcome the snapshot was built under)
buildPricingData(r) ==
  [provider |-> prov[r], scrapedAt |-> now, data |-> extractionResult[r].data,
   confidence |-> validationResult[r].confidence, by |-> att[r],
   ok |-> validationResult[r].valid]

SaveR2(r) ==
  /\ pc[r] \in {"save_raw", "save_extraction", "save_report"}
  /\ \/ /\ pc' = [pc EXCEPT ![r] = nextAfterSave(r)]
        /\ pricingData' = [pricingData EXCEPT ![r] =
              IF nextAfterSave(r) = "put_current"
                THEN buildPricingData(r) ELSE @]
        /\ UNCHANGED <<err, pages, extractionResult, validationResult>>
     \/ throw(r, "storage")
  /\ UNCHANGED <<ids, call, now, ticks, triggers, store, params, resp, hist>>

\* 3. extractor.extract: a document with its confidence, or an exception
Extract(r) ==
  /\ pc[r] = "extract"
  /\ calls' = [calls EXCEPT ![r] = Append(@, "extract")]
  /\ \/ \E d \in Docs :
          /\ extractionResult' = [extractionResult EXCEPT ![r] =
                [data |-> d,
                 confidence |-> calculateConfidence(d, pages[r])]]
          /\ pc' = [pc EXCEPT ![r] = "save_extraction"]
          /\ UNCHANGED <<err, pages, validationResult, pricingData>>
     \/ throw(r, "extract")
  /\ UNCHANGED <<ids, call, now, ticks, triggers, store, params, resp, acquired,
                 released, wroteCurrent, sawFresh, sawLock, freshAtLock, stolen,
                 recorded>>

\* 5. validator.validate; its one store read is the previous snapshot
Validate(r) ==
  /\ pc[r] = "validate"
  /\ calls' = [calls EXCEPT ![r] = Append(@, "validate")]
  /\ \/ LET historical == getCurrentPricing(prov[r])
        IN  /\ validationResult' = [validationResult EXCEPT ![r] =
                  validate(prov[r], extractionResult[r].data,
                           extractionResult[r].confidence,
                           historical, historical # NoData)]
            /\ pc' = [pc EXCEPT ![r] = "save_report"]
            /\ UNCHANGED <<err, pages, extractionResult, pricingData>>
     \/ throw(r, "storage")
  /\ UNCHANGED <<ids, call, now, ticks, triggers, store, params, resp, acquired,
                 released, wroteCurrent, sawFresh, sawLock, freshAtLock, stolen,
                 recorded>>

recordFailure(r) ==
  LET after == setLastFailure(prov[r], validationResult[r])
  IN  /\ failure' = after.failure
      /\ current' = after.current
      /\ archive' = after.archive

\* the rejection branch: record the failure, then throw 'Validation failed'
SetLastFailure(r) ==
  /\ pc[r] = "set_failure"
  /\ \/ /\ recordFailure(r)
        /\ recorded' = [recorded EXCEPT ![r] =
              /\ failure'[prov[r]] = validationResult[r]
              /\ Len(failure'[prov[r]].errors) >= 1]
        /\ throw(r, "validation")
     \/ /\ throw(r, "storage")
        /\ UNCHANGED <<failure, current, archive, recorded>>
  /\ UNCHANGED <<ids, call, now, ticks, triggers, lock, params, resp, acquired,
                 released, calls, wroteCurrent, sawFresh, sawLock, freshAtLock,
                 stolen>>

\* 8. setCurrentPricing, the write of the current key
PutCurrent(r) ==
  /\ pc[r] = "put_current"
  /\ \/ /\ current' = putCurrent(prov[r], pricingData[r])
        /\ wroteCurrent' = [wroteCurrent EXCEPT ![r] = TRUE]
        /\ pc' = [pc EXCEPT ![r] = "put_archive"]
        /\ UNCHANGED <<err, locals>>
     \/ /\ throw(r, "storage")
        /\ UNCHANGED <<current, wroteCurrent>>
  /\ UNCHANGED <<ids, call, now, ticks, triggers, lock, archive, failure,
                 params,
                 resp, acquired, released, calls, sawFresh, sawLock, freshAtLock,
                 stolen, recorded>>

\* 8. setCurrentPricing, the write of the dated archive key
PutArchive(r) ==
  /\ pc[r] = "put_archive"
  /\ \/ /\ archive' = putArchive(prov[r], pricingData[r])
        /\ pc' = [pc EXCEPT ![r] = "release"]
        /\ UNCHANGED <<err, locals>>
     \/ /\ throw(r, "storage")
        /\ UNCHANGED archive
  /\ UNCHANGED <<ids, call, now, ticks, triggers, lock, current, failure,
                 params,
                 resp, hist>>

\* mutant: the waiting caller is answered with the acceptance as well
outcomeAccepted(r) == AcceptedBackground(jobId[r])

\* what the caller of performScraping does with its outcome
outcome(r) ==
  IF ~wait[r] THEN resp[r]
  ELSE IF err[r] = "none" THEN Completed(pricingData[r])
  ELSE ScrapingFailed(jobId[r], err[r])

\* finally: release the lock; then the result or the exception reaches the caller
Release(r) ==
  /\ pc[r] = "release"
  /\ lock' = releaseScrapingLock(prov[r], att[r])
  /\ stolen' = (stolen \/ (releaseSteals(prov[r], att[r]) /\ lock'[prov[r]] = NoLock))
  /\ released' = [released EXCEPT ![r] = TRUE]
  /\ pc' = [pc EXCEPT ![r] = "done"]
  /\ resp' = [resp EXCEPT ![r] = outcome(r)]
  /\ pages' = [pages EXCEPT ![r] = 0]
  /\ extractionResult' = [extractionResult EXCEPT ![r] = NoExtraction]
  /\ validationResult' = [validationResult EXCEPT ![r] = NoResult]
  /\ pricingData' = [pricingData EXCEPT ![r] = NoData]
  /\ UNCHANGED <<ids, call, now, ticks, triggers, current, archive, failure,
                 params,
                 err, acquired, calls, wroteCurrent, sawFresh,
                 sawLock, freshAtLock, recorded>>

\* the clock advances
Tick ==
  /\ ticks < MaxTicks
  /\ \E d \in TickSteps : now' = now + d
  /\ ticks' = ticks + 1
  /\ UNCHANGED <<ids, call, triggers, store, pc, params, locals, resp, hist>>

Next ==
  \/ Tick
  \/ \E r \in Reqs :
       \/ Trigger(r) \/ LockGet(r) \/ LockPut(r) \/ HandlerStoreError(r)
       \/ FreshGet(r) \/ FreshRelease(r) \/ Scrape(r) \/ SaveR2(r)
       \/ Extract(r) \/ Validate(r) \/ SetLastFailure(r) \/ PutCurrent(r)
       \/ PutArchive(r) \/ Release(r)

Spec == Init /\ [][Next]_vars

\* ------------------------------------------- requests for two providers
\* the worker after deployment, its requests naming either configured provider
PairInit ==
  /\ WorkerInit
  /\ ids = PROVIDERS
  /\ args = NoCall
  /\ ret = NoCall

\* the steps of the requests, the clock standing still
PairNext ==
  \E r \in Reqs :
    \/ Trigger(r) \/ LockGet(r) \/ LockPut(r) \/ HandlerStoreError(r)
    \/ FreshGet(r) \/ FreshRelease(r) \/ Scrape(r) \/ SaveR2(r)
    \/ Extract(r) \/ Validate(r) \/ SetLastFailure(r) \/ PutCurrent(r)
    \/ PutArchive(r) \/ Release(r)

PairSpec == PairInit /\ [][PairNext]_vars

\* ---------------------------------- the extractor and the evaluator alone
\* pages handed to calculateConfidence
MaxPages == 2

\* {"tiers":[{"name":"Free","price":0},{"name":"Pro","price":20}]}: 63 characters
ScenarioADoc ==
  [truthy |-> TRUE, len |-> 63,
   words |-> {"tiers", "tier", "name", "free", "price", "pro"},
   nums |-> <<0, 20>>, tiers |-> 2, dup |-> FALSE]
\* {"tiers":[{"name":"Pro","price":P,"features":["100GB bandwidth",
\* "Unlimited builds"]}],"currency":"USD"}: 104 characters for a two-digit P
TierDoc(P) ==
  [truthy |-> TRUE, len |-> 104,
   words |-> {"tiers", "tier", "name", "pro", "price", "features", "bandwidth"},
   nums |-> <<P>>, tiers |-> 1, dup |-> FALSE]
PreviousDoc == TierDoc(20)
RepricedDoc == TierDoc(45)
NudgedDoc == TierDoc(22)
\* the same with "price":-5
NegativeDoc == TierDoc(-5)

EvalDocs ==
  {EmptyDoc, NullDoc, GoodDoc, SparseDoc, PlainDoc, ScenarioADoc, PreviousDoc,
   RepricedDoc, NudgedDoc, NegativeDoc}
EvalProviders == {"vercel", "netlify", "fly"}
\* extraction confidences in [0, 1], in thousandths; all even, so that the two
\* divisions of validate are exact in thousandths
Confidences == {0, 148, 150, 152, 200, 400, 600, 800, 900, 1000}
\* what getCurrentPricing returns inside validateStatistically
PreviousSnapshot(d) ==
  [provider |-> "", scrapedAt |-> 0, data |-> d, confidence |-> 0, by |-> 0,
   ok |-> TRUE]
Historicals ==
  {NoData, PreviousSnapshot(PreviousDoc), PreviousSnapshot(GoodDoc),
   PreviousSnapshot(SparseDoc)}

EvalArgs ==
  [op : {"validate"}, provider : EvalProviders, data : EvalDocs,
   confidence : Confidences, historical : Historicals, npages : {0}]
  \cup
  [op : {"calculateConfidence"}, provider : {"fly"}, data : EvalDocs,
   confidence : {0}, historical : {NoData}, npages : 0..MaxPages]

EvalInit ==
  /\ WorkerInit
  /\ ids = {}
  /\ args \in EvalArgs
  /\ ret = NoCall

\* validator.validate(provider, data, confidence)
CallValidate ==
  /\ args.op = "validate" /\ ret = NoCall
  /\ ret' = [op |-> "validate", threw |-> FALSE,
             value |-> validate(args.provider, args.data, args.confidence,
                                args.historical, args.historical # NoData)]
  /\ UNCHANGED <<now, ticks, triggers, store, pc, params, locals, resp, hist,
                 ids, args>>

\* countPlansOrTiers reads data.plans: a TypeError when data is null
countPlansOrTiersThrows(d) == ~d.truthy /\ d.len = NullDoc.len

\* this.calculateConfidence(extractedData, pages)
CallCalculateConfidence ==
  /\ args.op = "calculateConfidence" /\ ret = NoCall
  /\ ret' = [op |-> "calculateConfidence",
             threw |-> countPlansOrTiersThrows(args.data),
             value |-> IF countPlansOrTiersThrows(args.data) THEN 0
                       ELSE calculateConfidence(args.data, args.npages)]
  /\ UNCHANGED <<now, ticks, triggers, store, pc, params, locals, resp, hist,
                 ids, args>>

EvalNext == CallValidate \/ CallCalculateConfidence

EvalSpec == EvalInit /\ [][EvalNext]_vars

\* ------------------------------------------------- the scraper alone
\* URLs of the provider handed to scrapeProvider
MaxUrls == 2

\* renderingMode is optional: "none" is a configuration without it
RenderingModes == {"ssr", "auto", "csr", "none"}

ScrapeArgs ==
  UNION { [op : {"scrapeProvider"}, mode : RenderingModes,
           fs : [1..n -> FetchOutcomes], launched : BOOLEAN,
           bs : [1..n -> BrowserOutcomes]] : n \in 1..MaxUrls }

ScrapeInit ==
  /\ WorkerInit
  /\ ids = {}
  /\ args \in ScrapeArgs
  /\ ret = NoCall

\* scraper.scrapeProvider(provider)
CallScrapeProvider ==
  /\ args.op = "scrapeProvider" /\ ret = NoCall
  /\ ret' = [op |-> "scrapeProvider", threw |-> FALSE,
             fetchTried |-> triesFetch(args.mode),
             launchTried |-> launchesBrowser(args.mode, args.fs),
             value |-> scrapeProvider(args.mode, args.fs, args.launched,
                                      args.bs)]
  /\ UNCHANGED <<now, ticks, triggers, store, pc, params, locals, resp, hist,
                 ids, args>>

ScrapeNext == CallScrapeProvider

ScrapeSpec == ScrapeInit /\ [][ScrapeNext]_vars

\* ------------------------------------ scrapeAllPages, one page at a time
MaxBatchUrls == 4
maxConcurrent == 3

\* mutant: the whole list is taken as one batch
batchWhole(urls) == urls

\* urls.splice(0, maxConcurrent): what it returns
batch(urls) ==
  SubSeq(urls, 1, IF Len(urls) < maxConcurrent THEN Len(urls) ELSE maxConcurrent)

\* mutant: the results of a batch in the order its pages settled
batchResultsByArrival(b, arrived, bs) ==
  [i \in 1..Len(arrived) |-> scrapeAllPages(bs)[arrived[i]]]

\* await Promise.all(batchPromises): the value of each promise at the position
\* of its URL in the batch, whatever order the promises settled in
batchResults(b, arrived, bs) ==
  [i \in 1..Len(b) |-> scrapeAllPages(bs)[b[i]]]

\* mutant: the page is closed only when the try block returned
closePageOnReturn(openPages, u, threw) ==
  IF threw THEN openPages ELSE openPages \ {u}

\* scrapePage's finally block: if (page) page.close(), whether the try block
\* returned or threw; an exception of close itself is caught and logged
closePage(openPages, u, threw) == openPages \ {u}

BatchArgs ==
  UNION { [op : {"scrapeAllPages"}, bs : [1..n -> BrowserOutcomes]] :
            n \in 1..MaxBatchUrls }

BatchInit ==
  /\ WorkerInit
  /\ ids = {}
  /\ args \in BatchArgs
  /\ ret = NoCall

\* entry, with the browser scrapeProvider has launched: results = [],
\* urls = [...config.urls]; nothing attempted yet
CallScrapeAllPages ==
  /\ args.op = "scrapeAllPages" /\ ret = NoCall
  /\ ret' = [op |-> "scrapeAllPages", threw |-> FALSE,
             urls |-> [i \in 1..Len(args.bs) |-> i], batch |-> <<>>,
             inflight |-> {}, arrived |-> <<>>, results |-> <<>>,
             attempts |-> [u \in 1..Len(args.bs) |-> 0], returned |-> FALSE,
             opened |-> {}, openPages |-> {}, browserClosed |-> FALSE,
             finished |-> FALSE]
  /\ UNCHANGED <<now, ticks, triggers, store, pc, params, locals, resp, hist,
                 ids, args>>

\* one turn of the loop up to its await: splice the batch off the list and
\* call scrapePage for each of its URLs
StartBatch ==
  /\ ret.op = "scrapeAllPages" /\ ~ret.returned
  /\ ret.batch = <<>> /\ ret.urls # <<>>
  /\ LET b == batch(ret.urls)
         started == {b[i] : i \in 1..Len(b)}
     IN  ret' = [ret EXCEPT
                   !.urls = SubSeq(ret.urls, Len(b) + 1, Len(ret.urls)),
                   !.batch = b,
                   !.inflight = started,
                   !.arrived = <<>>,
                   !.attempts = [u \in DOMAIN ret.attempts |->
                                   IF u \in started THEN ret.attempts[u] + 1
                                   ELSE ret.attempts[u]]]
  /\ UNCHANGED <<now, ticks, triggers, store, pc, params, locals, resp, hist,
                 ids, args>>

\* scrapePage: browser.newPage() resolves
OpenPage ==
  /\ ret.op = "scrapeAllPages"
  /\ \E u \in ret.inflight \ ret.opened :
       ret' = [ret EXCEPT !.opened = @ \cup {u}, !.openPages = @ \cup {u}]
  /\ UNCHANGED <<now, ticks, triggers, store, pc, params, locals, resp, hist,
                 ids, args>>

\* one page's promise settles: scrapePage returned, or threw (at newPage or
\* later) and the catch returned the page with its error; its finally block
\* has run by then
SettlePage ==
  /\ ret.op = "scrapeAllPages"
  /\ \E u \in ret.inflight :
       /\ args.bs[u] = "error" \/ u \in ret.opened
       /\ ret' = [ret EXCEPT
                    !.inflight = @ \ {u}, !.arrived = Append(@, u),
                    !.openPages = closePage(@, u, args.bs[u] = "error")]
  /\ UNCHANGED <<now, ticks, triggers, store, pc, params, locals, resp, hist,
                 ids, args>>

\* Promise.all resolves once every promise of the batch has settled; its
\* results are pushed in the order of the batch
JoinBatch ==
  /\ ret.op = "scrapeAllPages"
  /\ ret.batch # <<>> /\ ret.inflight = {}
  /\ ret' = [ret EXCEPT
               !.results = @ \o batchResults(ret.batch, ret.arrived, args.bs),
               !.batch = <<>>]
  /\ UNCHANGED <<now, ticks, triggers, store, pc, params, locals, resp, hist,
                 ids, args>>

\* the list is empty: return results
ReturnResults ==
  /\ ret.op = "scrapeAllPages" /\ ~ret.returned
  /\ ret.batch = <<>> /\ ret.urls = <<>>
  /\ ret' = [ret EXCEPT !.returned = TRUE]
  /\ UNCHANGED <<now, ticks, triggers, store, pc, params, locals, resp, hist,
                 ids, args>>

\* scrapeProvider's finally block: browser.close(); then the result is
\* returned, or the exception of close leaves scrapeProvider
CloseBrowser ==
  /\ ret.op = "scrapeAllPages" /\ ret.returned /\ ~ret.finished
  /\ \E closeThrew \in BOOLEAN :
       ret' = [ret EXCEPT !.browserClosed = TRUE, !.finished = TRUE,
                          !.threw = closeThrew]
  /\ UNCHANGED <<now, ticks, triggers, store, pc, params, locals, resp, hist,
                 ids, args>>

BatchNext ==
  \/ CallScrapeAllPages
  \/ StartBatch
  \/ OpenPage
  \/ SettlePage
  \/ CloseBrowser
  \/ JoinBatch
  \/ ReturnResults

BatchSpec == BatchInit /\ [][BatchNext]_vars

\* ------------------------------------------------- GET /:provider
\* a snapshot of provider p committed at time t
SnapshotAt(p, t) ==
  [provider |-> p, scrapedAt |-> t, data |-> GoodDoc, confidence |-> 825,
   by |-> 0, ok |-> TRUE]

\* what commits leave under a provider's keys by the time `now`: nothing, or a
\* current snapshot with dated copies of earlier commits (setCurrentPricing
\* puts the current key before the dated one, and no code deletes either)
StoredPricing(p, t) ==
  { [current |-> NoData, archive |-> [d \in Dates |-> NoData]] }
  \cup
  { [current |-> SnapshotAt(p, c * DayMs),
     archive |-> [d \in Dates |->
                    IF d \in ds THEN SnapshotAt(p, d * DayMs) ELSE NoData]] :
      c \in 0..Date(t), ds \in SUBSET (0..Date(t)) }

PricingResponse(data) == [NoResp EXCEPT !.code = 200, !.body = data]
NoDataAvailable ==
  [NoResp EXCEPT !.code = 404, !.status = "NOT_FOUND",
                 !.message = "Provider not found or no data available"]

ReadInit ==
  /\ now \in {StartNow, StartNow + oneHour}
  /\ lock = [p \in PROVIDERS |-> NoLock]
  /\ failure = [p \in PROVIDERS |-> NoResult]
  /\ \E st \in [PROVIDERS -> UNION {StoredPricing(p, now) : p \in PROVIDERS}] :
       /\ \A p \in PROVIDERS : st[p] \in StoredPricing(p, now)
       /\ current = [p \in PROVIDERS |-> st[p].current]
       /\ archive = [p \in PROVIDERS |-> st[p].archive]
  /\ NoRequests
  /\ ids = {}
  /\ args \in [op : {"getProvider"}, provider : PROVIDERS]
  /\ ret = NoCall

\* the handler of GET /:provider
GetProvider ==
  /\ args.op = "getProvider" /\ ret = NoCall
  /\ LET data == getCurrentPricing(args.provider)
     IN  ret' = [op |-> "getProvider", threw |-> FALSE,
                 value |-> IF data = NoData THEN NoDataAvailable
                           ELSE PricingResponse(data)]
  /\ UNCHANGED <<now, ticks, triggers, store, pc, params, locals, resp, hist,
                 ids, args>>

\* the read of the current key fails: nothing catches it in the handler
GetProviderStoreError ==
  /\ args.op = "getProvider" /\ ret = NoCall
  /\ ret' = [op |-> "getProvider", threw |-> TRUE, value |-> InternalError]
  /\ UNCHANGED <<now, ticks, triggers, store, pc, params, locals, resp, hist,
                 ids, args>>

ReadNext == GetProvider \/ GetProviderStoreError

ReadSpec == ReadInit /\ [][ReadNext]_vars

\* ============================================================== properties
\* the positions between a successful setScrapingLock and the release
HoldingPcs ==
  {"fresh_get", "fresh_release", "scrape", "save_raw", "extract",
   "save_extraction", "validate", "save_report", "set_failure",
   "put_current", "put_archive", "release"}

holders(p) == {r \in Reqs : prov[r] = p /\ pc[r] \in HoldingPcs}

\* C1: for every provider, at most one attempt is between its successful
\* lease acquisition and its release at any instant (of two concurrent
\* triggers only one gets past the lock).
C1_AtMostOneHolder == \A p \in PROVIDERS : Cardinality(holders(p)) <= 1

\* C2: an attempt that acquired the lease has released it by the time it is
\* over, on every exit path.
C2_ReleasedOnEveryExit ==
  \A r \in Reqs : pc[r] = "done" /\ acquired[r] => released[r]

\* C3: a release never removes the live lease of another attempt.
C3_ReleaseOnlyOwnLease == ~stolen

\* C4: the snapshot stored as current was built under an accepted
\* ValidationOutcome, and an attempt is at the commit only after validate
\* returned valid.
C4_CurrentOnlyAccepted ==
  /\ \A p \in PROVIDERS : current[p] # NoData => current[p].ok
  /\ \A r \in Reqs :
       pc[r] \in {"put_current", "put_archive"} =>
         /\ validationResult[r].valid
         /\ calls[r] = <<"scrape", "extract", "validate">>
  /\ \A r \in Reqs : wroteCurrent[r] => "validate" \in {calls[r][i] : i \in 1..Len(calls[r])}

C4_Witness == \E p \in PROVIDERS : current[p] # NoData /\ current[p].ok

\* the attempt's candidate has been rejected by validate
RejectedAttempt(r) ==
  \/ /\ pc[r] \in {"save_report", "set_failure", "put_current", "put_archive"}
     /\ ~validationResult[r].valid
  \/ pc[r] \in {"release", "done"} /\ err[r] = "validation"

\* C5: no step of an attempt whose candidate was rejected changes the current
\* snapshot or the archive; recording the failure writes the failure key only.
C5_RejectionKeepsCurrent ==
  [][\A r \in Reqs :
       RejectedAttempt(r) /\ pc'[r] # pc[r] /\ pc'[r] # "lock_get" =>
         /\ current' = current
         /\ archive' = archive
         /\ (pc[r] = "set_failure" => lock' = lock)]_vars

C5_Witness ==
  \E r \in Reqs :
    /\ pc[r] = "done" /\ err[r] = "validation" /\ recorded[r]
    /\ current[prov[r]] # NoData

\* C6: an attempt that ends in failure has not written the current key.
C6_FailedLeavesCurrent ==
  \A r \in Reqs :
    pc[r] \in {"release", "done"} /\ err[r] # "none" => ~wroteCurrent[r]

\* C7: a rejected ValidationOutcome carries at least one hard error, the empty
\* document is rejected by the core check, and an attempt that ends as a
\* validation rejection has stored that outcome as the FailureRecord.
C7_RejectionRecorded ==
  \A r \in Reqs :
    /\ pc[r] \in {"save_report", "set_failure"} /\ ~validationResult[r].valid
         => Len(validationResult[r].errors) >= 1
    /\ pc[r] \in {"save_report", "set_failure"}
       /\ extractionResult[r].data = EmptyDoc
         => /\ ~validationResult[r].valid
            /\ validationResult[r].errors = coreErrors(EmptyDoc)
            /\ coreErrors(EmptyDoc) # <<>>
    /\ err[r] = "validation" => recorded[r]

C7_Witness ==
  \E r \in Reqs :
    /\ pc[r] = "release" /\ err[r] = "validation" /\ recorded[r]
    /\ failure[prov[r]].errors = coreErrors(EmptyDoc)

\* C8: a non-forced trigger that finds the current snapshot younger than one
\* hour runs no acquisition, extraction or validation and writes neither
\* current, archive nor a failure record.
C8_FreshRunsNothing ==
  \A r \in Reqs :
    sawFresh[r] =>
      /\ pc[r] \in {"fresh_release", "done"}
      /\ calls[r] = <<>>
      /\ ~wroteCurrent[r] /\ ~recorded[r]
      /\ err[r] = "none"

C8_Witness ==
  \E r \in Reqs : sawFresh[r] /\ pc[r] = "done" /\ calls[r] = <<>>

FreshNonForced(r) ==
  /\ pc[r] = "done" /\ ~force[r] /\ freshAtLock[r]
  /\ resp[r] # InternalError

\* C10 as stated: such a trigger creates no lease and is answered with the
\* no-op acceptance whether or not another attempt holds the lease.
C10_NoLeaseNoContention ==
  \A r \in Reqs :
    FreshNonForced(r) =>
      ~acquired[r] /\ resp[r] = AcceptedRecent(jobId[r])

\* C10 as amended: such a trigger takes the lease first.  If its lock read
\* finds an unexpired lease it is answered 'already_running' and creates no
\* lease; otherwise it creates a lease and, the snapshot still being recent
\* at the freshness read, releases it and is answered the no-op acceptance
\* with no pipeline stage run.
C10_ShortCircuitUnderLease ==
  \A r \in Reqs :
    FreshNonForced(r) =>
      IF sawLock[r]
        THEN resp[r] = AlreadyRunning /\ ~acquired[r] /\ calls[r] = <<>>
        ELSE /\ acquired[r]
             /\ sawFresh[r] =>
                  /\ released[r] /\ calls[r] = <<>>
                  /\ resp[r] = AcceptedRecent(jobId[r])

C10_Witness ==
  \E r \in Reqs :
    FreshNonForced(r) /\ sawLock[r] /\ resp[r] = AlreadyRunning

\* the request's lock read found an unexpired lease and it was turned away
TurnedAway(r) ==
  /\ pc[r] = "done" /\ resp[r] = AlreadyRunning
  /\ ~acquired[r] /\ ~released[r] /\ calls[r] = <<>>

\* C11: a trigger whose lock read finds an unexpired lease is answered
\* 'already_running' at once: it is never counted as having acquired, runs no
\* pipeline stage and never releases, and the step that reads the lease
\* leaves the lock key (the job identifier included) as it was.
C11_ExistingLeaseTurnsAway ==
  /\ [](\A r \in Reqs : sawLock[r] => TurnedAway(r))
  /\ [][\A r \in Reqs :
          pc[r] = "lock_get" /\ sawLock'[r] =>
            lock' = lock /\ resp'[r] = AlreadyRunning]_vars

C11_Witness ==
  \E r \in Reqs :
    /\ sawLock[r] /\ TurnedAway(r)
    /\ lock[prov[r]] # NoLock /\ lock[prov[r]].by # att[r]
    /\ lock[prov[r]].job # jobId[r]

\* C12: the final confidence validate returns and the confidence
\* calculateConfidence returns are within [0, 1], for every document,
\* previous snapshot and extraction confidence in [0, 1].
C12_ConfidenceInUnitInterval ==
  /\ ret.op = "validate" =>
       ret.value.confidence >= 0 /\ ret.value.confidence <= 1000
  /\ ret.op = "calculateConfidence" /\ ~ret.threw =>
       ret.value >= 0 /\ ret.value <= 1000

C12_Witness ==
  /\ ret.op = "validate" /\ args.confidence = 1000 /\ args.data = GoodDoc
  /\ args.historical # NoData /\ ret.value.confidence = 925

C14_ScenarioAAccepted ==
  /\ ret.op = "validate" /\ args.provider = "fly"
  /\ args.data = ScenarioADoc /\ args.confidence = 900
  /\ args.historical = NoData
  => /\ validateCore(args.data)
     /\ ret.value.valid
     /\ ret.value.data.tiers = 2

\* C15: Scenario C.  The previous snapshot holds the tier at price 20 and the
\* new extraction holds it at price 45: the ValidationOutcome carries a
\* price-change warning.
C15_ScenarioCWarns ==
  /\ ret.op = "validate"
  /\ args.data = RepricedDoc
  /\ args.historical = PreviousSnapshot(PreviousDoc)
  => \E i \in 1..Len(ret.value.warnings) :
       ret.value.warnings[i] = "Detected price change"

\* the pages the path scrapeProvider takes has obtained: the fetched ones in
\* 'ssr' mode and in 'auto' mode when they suffice, the rendered ones otherwise
usesFetch ==
  \/ args.mode = "ssr"
  \/ args.mode = "auto" /\ fetchSufficient(fetchedPages(args.fs))

acquiredPages ==
  IF usesFetch THEN fetchedPages(args.fs)
  ELSE IF args.launched THEN scrapeAllPages(args.bs)
  ELSE <<>>

\* one page with an error and one page with valid content
OneErrorOneValid(ps) ==
  /\ Len(ps) = 2
  /\ \E i, j \in 1..2 : ps[i].error /\ ~ps[j].error /\ ps[j].text = "long"

\* C16: Scenario E.  When acquisition yields one page with an error and one
\* page with valid content, scrapeProvider reports success and the valid
\* page is among the pages handed to extraction, in every rendering mode.
C16_PartialFailureProceeds ==
  ret.op = "scrapeProvider" /\ OneErrorOneValid(acquiredPages) =>
    /\ ret.value.success
    /\ \E i \in 1..Len(ret.value.pages) :
         ~ret.value.pages[i].error /\ ret.value.pages[i].text = "long"

\* the fetch or the navigation for URL i failed
urlFailed(i) ==
  IF usesFetch THEN args.fs[i] \in {"http_error", "throw"}
  ELSE args.bs[i] = "error"

\* C17: a completed acquisition returns exactly one page per configured URL,
\* and a URL whose fetch or navigation failed (a non-2xx response included)
\* is present as a page with empty text and its error field set.
C17_OnePagePerUrl ==
  ret.op = "scrapeProvider" /\ ret.value.success =>
    /\ Len(ret.value.pages) = Len(args.fs)
    /\ \A i \in 1..Len(args.fs) :
         urlFailed(i) =>
           \E k \in 1..Len(ret.value.pages) :
             /\ ret.value.pages[k].url = i
             /\ ret.value.pages[k].error /\ ret.value.pages[k].text = ""

\* C18: a read for a provider that has no current snapshot, the store
\* answering, is not an error outcome: it returns what the fallback chain
\* finds, the static default when no snapshot exists at all.
C18_ReadFallsBack ==
  /\ ret.op = "getProvider" /\ ~ret.threw
  /\ current[args.provider] = NoData
  => ret.value.code = 200

\* C19: an archive entry only ever appears by a step of an attempt that has
\* already written the same snapshot under the current key: in every state,
\* those between the two writes and after a failed write included, no attempt's
\* archive entry is visible before its current write.
C19_CurrentBeforeArchive ==
  [][\A p \in PROVIDERS, d \in Dates :
       archive'[p][d] # archive[p][d] =>
         \E r \in Reqs :
           /\ prov[r] = p /\ pc[r] = "put_archive" /\ wroteCurrent[r]
           /\ archive'[p][d] = pricingData[r]
           /\ current[p] # NoData
           /\ current[p] = pricingData[r] \/ current[p].by # att[r]]_vars

C19_Witness ==
  \E p \in PROVIDERS, d \in Dates, r \in Reqs :
    /\ archive[p][d] # NoData /\ current[p] = archive[p][d]
    /\ prov[r] = p /\ pc[r] = "release" /\ wroteCurrent[r]
    /\ archive[p][d].by = att[r]

\* what kind of outcome a response is: its HTTP status and its error code
outcomeKind(response) == <<response.code, response.status>>

\* C20: the outcome a synchronous caller receives for a validation rejection
\* is of another kind than the one it receives for a system fault (acquisition
\* failure, extraction error, storage error).
C20_RejectionDistinctFromFault ==
  \A r1, r2 \in Reqs :
    /\ pc[r1] = "done" /\ wait[r1] /\ acquired[r1] /\ err[r1] = "validation"
    /\ pc[r2] = "done" /\ wait[r2] /\ acquired[r2]
    /\ err[r2] \in {"scrape", "extract", "storage"}
    => outcomeKind(resp[r1]) # outcomeKind(resp[r2])

\* a lease is stored for p and its expiry has elapsed
StaleLease(p) == lock[p] # NoLock /\ now >= lock[p].exp

\* C21: a lease left behind by an attempt that never released it is
\* equivalent to absent once its 5 minutes have elapsed: a trigger whose lock
\* read meets it, the store answering, is not turned away but goes on to
\* write its own lease, which is then the stored one with a fresh expiry.
C21_ExpiredLeaseIsAbsent ==
  [][\A r \in Reqs :
       /\ (/\ pc[r] = "lock_get" /\ StaleLease(prov[r])
           /\ pc'[r] # "lock_get" /\ resp'[r] # InternalError
           => pc'[r] = "lock_put" /\ ~sawLock'[r])
       /\ (/\ pc[r] = "lock_put" /\ pc'[r] # "lock_put"
           /\ resp'[r] # InternalError
           => /\ acquired'[r]
              /\ lock'[prov[r]].by = att[r]
              /\ lock'[prov[r]].exp = now + LockTtlSec * 1000
              /\ pc'[r] \in {"fresh_get", "scrape"})]_vars

\* an earlier attempt never released its lease, the lease expired, and a
\* later trigger has taken the lease and is in the pipeline
C21_Witness ==
  \E r, q \in Reqs :
    /\ r # q /\ prov[r] = prov[q] /\ att[q] < att[r]
    /\ acquired[q] /\ ~released[q]
    /\ acquired[r] /\ pc[r] = "extract" /\ ~sawLock[r]
    /\ lock[prov[r]].by = att[r]
    /\ jobId[r][3] >= jobId[q][3] + LockTtlSec * 1000

\* the positions inside performScraping
PipelinePcs == HoldingPcs \ {"fresh_get", "fresh_release"}

C23_CommitWritesOwnDateOnly ==
  [][\A r \in Reqs :
       pc[r] \in {"put_current", "put_archive"} /\ pc'[r] # pc[r] =>
         /\ \A p \in PROVIDERS \ {prov[r]} :
              current'[p] = current[p] /\ archive'[p] = archive[p]
         /\ \A d \in Dates \ {Date(now)} :
              archive'[prov[r]][d] = archive[prov[r]][d]
         /\ pc[r] = "put_archive" => current' = current
         /\ pc[r] = "put_current" => archive' = archive
         /\ failure' = failure /\ lock' = lock]_vars

\* a commit of a later date next to the entry of an earlier one
C23_Witness ==
  \E p \in PROVIDERS, d, e \in Dates :
    /\ d < e /\ archive[p][d] # NoData /\ archive[p][e] # NoData
    /\ archive[p][d].by # archive[p][e].by
    /\ Date(archive[p][d].scrapedAt) = d
    /\ current[p] = archive[p][e]

\* C24: attempts for distinct providers are independent.  A trigger is
\* answered 'already_running' only when its own provider's lease was found,
\* and the short-circuit only on its own provider's snapshot; and no step of
\* an attempt changes the lease, current snapshot, archive or failure record
\* of another provider.
C24_ProvidersIndependent ==
  /\ [](\A r \in Reqs :
          /\ resp[r] = AlreadyRunning => sawLock[r]
          /\ pc[r] = "fresh_release" => sawFresh[r])
  /\ [][\A r \in Reqs :
          pc[r] \notin {"idle", "done"} /\ pc'[r] # pc[r] =>
            \A p \in PROVIDERS \ {prov[r]} :
              /\ lock'[p] = lock[p] /\ current'[p] = current[p]
              /\ archive'[p] = archive[p] /\ failure'[p] = failure[p]]_vars

\* two providers refreshed at once, each attempt under its own lease
C24_Witness ==
  \E r, q \in Reqs :
    /\ prov[r] = "vercel" /\ prov[q] = "fly"
    /\ pc[r] \in PipelinePcs /\ pc[q] \in PipelinePcs
    /\ lock["vercel"].by = att[r] /\ lock["fly"].by = att[q]
    /\ ~sawLock[r] /\ ~sawLock[q]

\* the four layer scores of a call of validate, in thousandths
layerScores ==
  <<IF validateCore(args.data) THEN 1000 ELSE 0,
    IF validateProvider(args.provider, args.data) THEN 800 ELSE 0,
    IF validateStatistically(args.data, args.historical,
                             args.historical # NoData) THEN 700 ELSE 500,
    IF validateSemantically(args.data) THEN 900 ELSE 500>>

\* C25: the final confidence is the mean of the extraction confidence and of
\* the average of the four layer scores (core 1/0, provider 0.8/0,
\* statistical 0.7/0.5, semantic 0.9/0.5).
C25_FinalConfidenceFormula ==
  ret.op = "validate" =>
    8 * ret.value.confidence =
      4 * args.confidence
      + layerScores[1] + layerScores[2] + layerScores[3] + layerScores[4]

C25_Witness ==
  /\ ret.op = "validate" /\ ~validateCore(args.data)
  /\ args.confidence = 900 /\ ret.value.confidence = 750

\* the document holds a negative number as a value
hasNegativePrice(d) == \E i \in 1..Len(d.nums) : d.nums[i] < 0

\* C26: a document that passes the core check and holds a negative price is
\* rejected by validate.
C26_NegativePriceRejected ==
  /\ ret.op = "validate"
  /\ validateCore(args.data) /\ hasNegativePrice(args.data)
  => ~ret.value.valid

\* C27: when the core check fails (no object, fewer than 100 characters, or
\* no pricing or limits vocabulary) the outcome is rejected and carries the
\* core error, whatever the extraction confidence and the other layers.
C27_CoreFailureRejects ==
  ret.op = "validate" /\ ~validateCore(args.data) =>
    /\ ~ret.value.valid
    /\ ret.value.errors = coreErrors(args.data)
    /\ Len(ret.value.errors) = 1

\* a document without the vocabulary, at full extraction confidence: the final
\* confidence is 0.8 and the outcome is rejected all the same
C27_Witness ==
  /\ ret.op = "validate" /\ args.data = PlainDoc /\ args.confidence = 1000
  /\ ret.value.confidence = 800 /\ ~ret.value.valid

\* the outcome of the same call for a provider without expectations
unregisteredOutcome ==
  validate("fly", args.data, args.confidence, args.historical,
           args.historical # NoData)

\* C28: the provider layer is soft.  It passes for every provider and
\* document; for the same document, confidence and previous snapshot the
\* outcome under a provider with expectations has the decision, confidence and
\* errors of the outcome under a provider without any, and differs only by
\* the warnings for the missed expectations, put first.
C28_ProviderLayerSoft ==
  ret.op = "validate" =>
    /\ validateProvider(args.provider, args.data)
    /\ ret.value.valid = unregisteredOutcome.valid
    /\ ret.value.confidence = unregisteredOutcome.confidence
    /\ ret.value.errors = unregisteredOutcome.errors
    /\ ret.value.warnings =
         providerWarnings(args.provider, args.data)
         \o unregisteredOutcome.warnings
    /\ providerWarnings("fly", args.data) = <<>>

\* an accepted document that misses what is expected of a Vercel document
C28_Witness ==
  /\ ret.op = "validate" /\ args.provider = "vercel" /\ args.data = GoodDoc
  /\ ret.value.valid
  /\ ret.value.warnings[1] = "Vercel data missing expected limit types"

\* the tolerance band: the difference is under 20% of the new price
inBand(price, old) == 5 * Abs(price - old) < price
hasMatch(price, oldPrices) ==
  \E i \in 1..Len(oldPrices) : inBand(price, oldPrices[i])
priceChangeWarned ==
  \E i \in 1..Len(ret.value.warnings) :
    ret.value.warnings[i] = "Detected price change"

\* C29: when a previous snapshot exists, a new price is compared only with a
\* previous price inside the tolerance band: the price found for it lies in
\* the band, and none is found when no previous price does or the previous
\* list is empty; when no new price has a match, the result carries no
\* price-change warning.
C29_UnmatchedPriceNotWarned ==
  (ret.op = "validate" /\ args.historical # NoData) =>
    LET newPrices == extractPrices(args.data)
        oldPrices == extractPrices(args.historical.data)
    IN  /\ \A i \in 1..Len(newPrices) :
             LET closestOld == findClosestPrice(newPrices[i], oldPrices)
             IN  IF hasMatch(newPrices[i], oldPrices)
                   THEN inBand(newPrices[i], closestOld)
                   ELSE closestOld = NoPrice
        /\ (\A i \in 1..Len(newPrices) : ~hasMatch(newPrices[i], oldPrices))
             => ~priceChangeWarned

\* a price that moved from 20 to 45 has no previous price in its band
C29_Witness ==
  /\ ret.op = "validate" /\ args.data = RepricedDoc
  /\ args.historical = PreviousSnapshot(PreviousDoc)
  /\ ~hasMatch(45, extractPrices(args.historical.data))
  /\ ~priceChangeWarned

batchRunning == ret.op = "scrapeAllPages"

\* at most 3 pages in flight, no URL attempted twice, and on return every
\* URL attempted once with its page in the results
C30_BoundedAttempts ==
  batchRunning =>
    /\ Cardinality(ret.inflight) <= 3
    /\ \A u \in DOMAIN ret.attempts : ret.attempts[u] <= 1
    /\ ret.returned =>
         /\ \A u \in DOMAIN ret.attempts : ret.attempts[u] = 1
         /\ ret.results = scrapeAllPages(args.bs)

\* a step that puts pages in flight finds none in flight
C30_BatchAfterSettled ==
  (batchRunning /\ ret'.op = "scrapeAllPages"
     /\ ret'.inflight \ ret.inflight # {})
    => ret.inflight = {}

\* C30: during rendered acquisition of a URL list at most 3 pages are in
\* flight at any instant, a batch starts only after every page of the
\* previous batch has settled, and every URL is attempted exactly once.
C30_BoundedConcurrentBatches ==
  [](C30_BoundedAttempts) /\ [][C30_BatchAfterSettled]_vars

\* a list of more than 3 URLs acquired in two batches
C30_Witness ==
  /\ batchRunning /\ ret.returned
  /\ Len(args.bs) > 3 /\ Len(ret.results) = Len(args.bs)

\* C31: in rendered acquisition a page that fails neither cancels nor
\* discards the others: the returned list has one result per configured URL,
\* at the position of that URL, with the error of a page that failed and the
\* text of a page that loaded, whatever order the pages settled in.
C31_ResultsByUrlPosition ==
  (batchRunning /\ ret.returned) =>
    /\ Len(ret.results) = Len(args.bs)
    /\ \A i \in 1..Len(args.bs) :
         /\ ret.results[i].url = i
         /\ ret.results[i].error = (args.bs[i] = "error")
         /\ args.bs[i] # "error" => ret.results[i].text = args.bs[i]

\* the first page failed and settled after a later page of its batch
C31_Witness ==
  /\ batchRunning /\ ret.returned
  /\ args.bs = <<"error", "long", "long">>
  /\ ret.arrived = <<3, 1, 2>>
  /\ ret.results[2].text = "long"

\* at least one fetch got a response and every response had more than 500
\* characters of text
fetchedEnough ==
  /\ \E i \in 1..Len(args.fs) : args.fs[i] # "http_error"
  /\ \A i \in 1..Len(args.fs) : args.fs[i] \in {"long", "http_error"}

\* C32: the plain fetch is tried exactly for the hints 'ssr' and 'auto'; its
\* pages are the result iff at least one page was fetched and every fetched
\* page has more than 500 characters; on insufficient content an 'ssr'
\* provider fails without a launch of the rendering engine and an 'auto'
\* provider launches it; a provider with hint 'csr' or without a hint
\* launches it without any fetch.
C32_ModeSelection ==
  ret.op = "scrapeProvider" =>
    /\ ret.fetchTried <=> args.mode \in {"ssr", "auto"}
    /\ ret.fetchTried =>
         ((ret.value.success /\ ~ret.launchTried) <=> fetchedEnough)
    /\ (ret.fetchTried /\ fetchedEnough) =>
         ret.value.pages = fetchedPages(args.fs)
    /\ (args.mode = "ssr" /\ ~fetchedEnough) =>
         (~ret.value.success /\ ~ret.launchTried)
    /\ (args.mode = "auto" /\ ~fetchedEnough) => ret.launchTried
    /\ args.mode \in {"csr", "none"} => ret.launchTried
    /\ (ret.launchTried /\ args.launched) =>
         (ret.value.success /\ ret.value.pages = scrapeAllPages(args.bs))

\* an 'auto' provider with one short page among its fetched pages, rendered
C32_Witness ==
  /\ ret.op = "scrapeProvider" /\ args.mode = "auto"
  /\ args.fs = <<"long", "short">> /\ args.launched
  /\ ret.launchTried /\ ret.value.pages = scrapeAllPages(args.bs)

\* C33: the step that records a rejection stores the candidate document in
\* the provider's FailureRecord and leaves the current snapshot as it was.
C33_CandidateInFailureRecord ==
  [][\A r \in Reqs :
       pc[r] = "set_failure" /\ failure'[prov[r]] # failure[prov[r]] =>
         /\ failure'[prov[r]].data = extractionResult[r].data
         /\ current' = current]_vars

\* the stages an attempt invokes once it holds the lease, in order
Stages == <<"scrape", "extract", "validate">>
isPrefix(s, t) == Len(s) <= Len(t) /\ s = SubSeq(t, 1, Len(s))

C34_StagesInOrder ==
  \A r \in Reqs :
    /\ isPrefix(calls[r], Stages)
    /\ calls[r] # <<>> => acquired[r]
    /\ err[r] = "scrape" => calls[r] = <<"scrape">>
    /\ err[r] = "extract" =>
         (calls[r] = <<"scrape", "extract">> /\ ~wroteCurrent[r])
    /\ err[r] = "validation" => (calls[r] = Stages /\ ~wroteCurrent[r])
    /\ pc[r] \in {"put_current", "put_archive"} =>
         (calls[r] = Stages /\ validationResult[r].valid)
    /\ (pc[r] = "done" /\ err[r] = "extract") => released[r]

C34_ExtractionFailureAborts ==
  \A r \in Reqs :
    (err[r] = "extract" /\ pc[r] = "release" /\ pc'[r] # pc[r]) =>
      /\ pc'[r] = "done"
      /\ lock'[prov[r]] = NoLock
      /\ current' = current /\ archive' = archive

\* C34: within one attempt the stages run in the order lock, acquire,
\* extract, validate, commit, each at most once: no extraction after an
\* acquisition that failed, no validation after an extraction that failed,
\* no commit after a validation that failed or rejected; after an extraction
\* failure the attempt's one remaining step releases the lease and leaves the
\* current snapshot and the archive as they were.
C34_StrictStageOrder ==
  [](C34_StagesInOrder) /\ [][C34_ExtractionFailureAborts]_vars

\* an attempt that failed at extraction, over a snapshot committed earlier
C34_Witness ==
  \E r \in Reqs :
    /\ pc[r] = "done" /\ err[r] = "extract" /\ released[r]
    /\ calls[r] = <<"scrape", "extract">>
    /\ current[prov[r]] # NoData /\ current[prov[r]].by # att[r]

\* C35: accepted data never regresses.  No step replaces a provider's
\* current snapshot by one with an earlier capture time (scrapedAt).
C35_CurrentNeverOlder ==
  [][\A p \in PROVIDERS :
       (current[p] # NoData /\ current'[p] # NoData) =>
         current'[p].scrapedAt >= current[p].scrapedAt]_vars

\* C36: when no attempt is in flight and the attempt whose snapshot is the
\* provider's current one has completed its commit, the archive entry of the
\* date of that commit is that same snapshot: some dated entry is.
C36_ArchiveMatchesCurrent ==
  \A p \in PROVIDERS :
    (/\ \A r \in Reqs : pc[r] \in {"idle", "done"}
     /\ \E r \in Reqs :
          /\ prov[r] = p /\ pc[r] = "done" /\ err[r] = "none"
          /\ wroteCurrent[r] /\ current[p].by = att[r])
    => \E d \in Dates : archive[p][d] = current[p]

C37_StoredConfidenceBounds ==
  \A p \in PROVIDERS :
    current[p] # NoData =>
      (current[p].confidence > Threshold /\ current[p].confidence <= 1000)

C37_WriteCarriesFinalConfidence ==
  \A r \in Reqs :
    (pc[r] = "put_current" /\ current'[prov[r]] # current[prov[r]]) =>
      /\ validationResult[r].valid
      /\ current'[prov[r]].confidence = validationResult[r].confidence
      /\ current'[prov[r]].confidence =
           (extractionResult[r].confidence + 850) \div 2

\* C37: every snapshot stored as current carries as its confidence the
\* Evaluator's final confidence for its attempt, the mean of the extraction
\* confidence and the layer score, not the extraction confidence itself, and
\* that value is above 0.5 and at most 1.
C37_CurrentCarriesFinalConfidence ==
  [](C37_StoredConfidenceBounds) /\ [][C37_WriteCarriesFinalConfidence]_vars

\* a snapshot just written whose confidence differs from the extraction's
C37_Witness ==
  \E r \in Reqs :
    /\ pc[r] = "put_archive" /\ current[prov[r]] = pricingData[r]
    /\ current[prov[r]].confidence = validationResult[r].confidence
    /\ current[prov[r]].confidence # extractionResult[r].confidence

\* the outcome of the same call had the previous snapshot been h
outcomeOver(h) ==
  validate(args.provider, args.data, args.confidence, h, h # NoData)

\* C38: the decision does not depend on the previous snapshot.  Whatever the
\* previous accepted snapshot, or without one, the same provider, document
\* and extraction confidence give the same valid flag, final confidence and
\* hard errors; only the warnings may differ.
C38_DecisionIgnoresPrevious ==
  ret.op = "validate" =>
    \A h \in Historicals :
      /\ outcomeOver(h).valid = ret.value.valid
      /\ outcomeOver(h).confidence = ret.value.confidence
      /\ outcomeOver(h).errors = ret.value.errors

\* an accepted document much larger than the previous one: a warning that the
\* run without a previous snapshot does not have
C38_Witness ==
  /\ ret.op = "validate" /\ args.data = GoodDoc
  /\ args.historical = PreviousSnapshot(PreviousDoc)
  /\ ret.value.valid
  /\ ret.value.warnings # outcomeOver(NoData).warnings

\* a request whose provider id is not configured
unconfigured(r) == pc[r] # "idle" /\ prov[r] \notin PROVIDERS

C39_UnknownAnswered ==
  \A r \in Reqs :
    unconfigured(r) =>
      /\ pc[r] = "done" /\ resp[r] = NotFound
      /\ ~acquired[r] /\ calls[r] = <<>>
      /\ ~wroteCurrent[r] /\ ~recorded[r]

C39_UnknownWritesNothing ==
  \A r \in Reqs :
    (att'[r] # att[r] /\ prov'[r] \notin PROVIDERS) =>
      /\ lock' = lock /\ current' = current
      /\ archive' = archive /\ failure' = failure

\* C39: a refresh trigger for a provider id outside the configured list is
\* answered NOT_FOUND at once: it takes no lease, invokes no acquisition,
\* extraction or validation, and its step writes nothing to the store.
C39_UnknownProviderNotFound ==
  [](C39_UnknownAnswered) /\ [][C39_UnknownWritesNothing]_vars

\* an unknown id answered while an attempt of a configured provider holds
\* its lease
C39_Witness ==
  \E r, q \in Reqs :
    /\ unconfigured(r) /\ resp[r] = NotFound
    /\ prov[q] \in PROVIDERS /\ pc[q] = "scrape"
    /\ lock[prov[q]] # NoLock

\* C40: rendering resources are released on every exit path.  A page that
\* is open belongs to a scrapePage call that has not yet returned or thrown,
\* so each call has closed its page by the time it settles; and when
\* scrapeProvider is left, by return or by exception, the browser it launched
\* has been closed and no page is open.
C40_ResourcesReleased ==
  batchRunning =>
    /\ ret.openPages \subseteq ret.inflight
    /\ ret.browserClosed => ret.openPages = {}
    /\ ret.finished => ret.browserClosed

\* the rendering path left with a page that had been opened and then failed
C40_Witness ==
  /\ batchRunning /\ ret.finished /\ ret.browserClosed
  /\ \E u \in ret.opened : args.bs[u] = "error"
  /\ ret.openPages = {}

====
